---------------------------- MODULE Spec2Model ----------------------------
(***************************************************************************)
(* Transaction tracking of the G2P Connect ID Mapper "update" flow:        *)
(*   service/update.py               MapperUpdateService                   *)
(*   controllers/update_callback.py  UpdateCallbackController              *)
(*                                                                         *)
(* The process is a single asyncio event loop.  A coroutine runs without   *)
(* interruption between two awaits, so every action below is the code      *)
(* between two suspension points of one coroutine.                         *)
(***************************************************************************)
EXTENDS Integers, Sequences, FiniteSets, TLC

(***************************************************************************)
(* Bounds of the model.                                                    *)
(***************************************************************************)
MaxIssues == 1        \* calls of update_request (direct or through _sync)
MaxMappings == 2      \* length of the mappings argument
MaxRetriesArg == 2    \* largest max_retries argument of update_request_sync

(***************************************************************************)
(* RequestStatusEnum, Ack and the Python values None and "".               *)
(***************************************************************************)
rcvd == "rcvd"
pdng == "pdng"
succ == "succ"
rjct == "rjct"
RequestStatusEnum == {rcvd, pdng, succ, rjct}
None == "None"
ACK == "ACK"
NACK == "NACK"

\* The outcomes of httpx.post + raise_for_status + model_validate.
DispatchOutcomes == {"ack", "nack", "timeout", "non2xx", "raise"}

\* MapperValue(id, fa): the items of the mappings argument.
MapperValues == {[id |-> "a", fa |-> "fa-a"], [id |-> "b", fa |-> "fa-b"]}

RECURSIVE SeqsUpTo(_, _)
SeqsUpTo(S, n) ==
    IF n = 0 THEN {<<>>}
    ELSE LET shorter == SeqsUpTo(S, n - 1)
         IN  shorter \cup {Append(s, x) : s \in {q \in shorter : Len(q) = n - 1}, x \in S}

MappingLists == SeqsUpTo(MapperValues, MaxMappings)

\* uuid.uuid4() for a transaction id and for a reference id: a value never
\* handed out before.  The k-th call gets transaction id k; reference ids
\* come from a counter that starts above the ids other issuers have used.
\* EmptyStr is the txn_id "" of update.py line 111, which is no uuid.
EmptyStr == 0
TxnIds == 1 .. MaxIssues
NumSeedRefs == 2
SeedRefs == 1 .. NumSeedRefs
UnknownRef == NumSeedRefs + 1
FirstIssuedRef == NumSeedRefs + 2

VARIABLES
    transaction_queue,   \* MapperUpdateService.transaction_queue
    issued,              \* number of update_request calls so far (uuid source)
    next_ref,            \* next unused reference id (uuid source)
    mappings_arg,        \* the mappings argument of each update_request call
    update_http_request, \* the outbound payload built by each call
    task,                \* state of the start_update_process task of each call
    outcome,             \* what the outbound call of each task came to
    posted,              \* payloads that went out through httpx.post
    hook_called,         \* whether callable_on_complete of a record was invoked
    sync,                \* the one update_request_sync call of the model
    store,               \* the Store: key -> serialised record, for the keys that exist
    expiring,            \* the keys of the Store that carry an expiry
    rc                   \* the invocations of mapper_on_update

vars == <<transaction_queue, issued, next_ref, mappings_arg, update_http_request,
          task, outcome, posted, hook_called, sync, store, expiring, rc>>
issuer_vars == <<transaction_queue, issued, next_ref, mappings_arg,
                 update_http_request, task, outcome, posted, hook_called, sync>>
store_vars == <<store, expiring, rc>>

\* d[k] = v on a Python dict
DictSet(d, k, v) == [x \in DOMAIN d \cup {k} |-> IF x = k THEN v ELSE d[x]]

(***************************************************************************)
(* update.py 44-56: one fresh reference id per mapping, in input order.    *)
(***************************************************************************)
\* (one id for the whole batch)
ReferenceIdSame(base, k) == base + 1

ReferenceId(base, k) == base + k

\* SingleTxnRefStatus(status=rcvd, reference_id=reference_id)
NewRef(r) == [status |-> rcvd, reference_id |-> r, status_reason_code |-> None]

\* txn_statuses after the loop of lines 44-56
TxnStatuses(base, mappings) ==
    LET ids == {ReferenceId(base, k) : k \in 1 .. Len(mappings)}
    IN  [r \in ids |-> NewRef(r)]

\* update_request (the list) after the loop of lines 44-56
UpdateRequestItems(base, mappings) ==
    [k \in 1 .. Len(mappings) |->
        [reference_id |-> ReferenceId(base, k),
         id |-> mappings[k].id, fa |-> mappings[k].fa]]

\* UpdateHttpRequest of lines 65-82, reduced to what correlation needs.
UpdateHttpRequest(txn_id, base, mappings) ==
    [transaction_id |-> txn_id,
     total_count |-> Len(mappings),
     update_request |-> UpdateRequestItems(base, mappings)]

\* TxnStatus of lines 58-63
NewTxnStatus(txn_id, base, mappings, callback_func) ==
    [txn_id |-> txn_id, status |-> rcvd,
     refs |-> TxnStatuses(base, mappings),
     callable_on_complete |-> callback_func]

(***************************************************************************)
(* TxnStatus.change_all_status: the aggregate and every ref take the       *)
(* given status.                                                           *)
(***************************************************************************)
change_all_status(rec, status) ==
    [rec EXCEPT !.status = status,
                !.refs = [r \in DOMAIN rec.refs |-> [rec.refs[r] EXCEPT !.status = status]]]

\* update.py 93-102: the status the settled dispatch hands to change_all_status.
\* (an acknowledgement taken for the success of every ref)
DispatchStatusAckSucceeded(o) == IF o = "ack" THEN succ ELSE rjct

\* (pending whatever the answer)
DispatchStatusAllPending(o) == pdng

DispatchStatus(o) == IF o = "ack" THEN pdng ELSE rjct

(***************************************************************************)
(* update_request, lines 37-105, as far as the state goes.                 *)
(***************************************************************************)
update_request(mappings, callback_func) ==
    LET txn_id == issued + 1
    IN  /\ issued < MaxIssues
        /\ issued' = txn_id
        /\ next_ref' = next_ref + Len(mappings)
        /\ transaction_queue' = DictSet(transaction_queue, txn_id,
               NewTxnStatus(txn_id, next_ref, mappings, callback_func))
        /\ mappings_arg' = DictSet(mappings_arg, txn_id, mappings)
        /\ update_http_request' = DictSet(update_http_request, txn_id,
               UpdateHttpRequest(txn_id, next_ref, mappings))
        /\ task' = [task EXCEPT ![txn_id] = "scheduled"]

\* A caller awaits update_request(mappings) without a completion hook.
Issue ==
    /\ issued < MaxIssues
    /\ \E mappings \in MappingLists : update_request(mappings, None)
    /\ UNCHANGED <<outcome, posted, hook_called, sync>>
    /\ UNCHANGED store_vars

(***************************************************************************)
(* start_update_process, lines 84-102.  httpx.post is a blocking call and  *)
(* the coroutine has no await: the task runs in one piece.                 *)
(***************************************************************************)
start_update_process(t) ==
    /\ task[t] = "scheduled"
    /\ \E o \in DispatchOutcomes :
        /\ task' = [task EXCEPT ![t] = "settled"]
        /\ outcome' = [outcome EXCEPT ![t] = o]
        /\ posted' = posted \cup {update_http_request[t]}
        /\ transaction_queue' = [transaction_queue EXCEPT
               ![t] = change_all_status(@, DispatchStatus(o))]
    /\ UNCHANGED <<issued, next_ref, mappings_arg, update_http_request,
                   hook_called, sync>>
    /\ UNCHANGED store_vars

(***************************************************************************)
(* update_request_sync, lines 107-132.                                     *)
(***************************************************************************)
MaxRetriesExhausted == "G2P-MAP-103"

\* lines 110-114.  Line 113 passes ref={}, no refs: the record is taken to
\* start with the empty refs that TxnStatus gives a record built without.
SyncTxnStatus ==
    [txn_id |-> EmptyStr, status |-> rcvd, refs |-> <<>>, callable_on_complete |-> None]

SyncIdle ==
    [pc |-> "idle", txn |-> 0, retry_count |-> 0, max_retries |-> 0,
     txn_status |-> SyncTxnStatus, result |-> None, error |-> None]

\* lines 116-120
wait_for_callback(txn_status, rec_txn_status) ==
    [txn_status EXCEPT !.status = rec_txn_status.status,
                       !.txn_id = rec_txn_status.txn_id,
                       !.refs = txn_status.refs,
                       !.callable_on_complete = rec_txn_status.callable_on_complete]

\* line 125, the loop condition (and the one that sleeps once more)
LoopCondOffByOne(s) == s.txn_status.txn_id = EmptyStr /\ s.retry_count <= s.max_retries

LoopCond(s) == s.txn_status.txn_id = EmptyStr /\ s.retry_count < s.max_retries

\* lines 125-132 from the loop test on: another sleep, the raise, or the end
\* of the function body (no return statement: the call evaluates to None).
SyncContinue(s) ==
    IF LoopCond(s)
    THEN [s EXCEPT !.retry_count = @ + 1, !.pc = "sleep"]
    ELSE IF s.txn_status.txn_id = EmptyStr
         THEN [s EXCEPT !.pc = "raised", !.error = MaxRetriesExhausted]
         ELSE [s EXCEPT !.pc = "returned", !.result = "None"]

\* lines 110-127 up to the first await that suspends: update_request has
\* no await of its own, so the loop test runs right after it.
SyncCall ==
    /\ sync.pc = "idle"
    /\ \E mappings \in MappingLists, max_retries \in 0 .. MaxRetriesArg :
        /\ update_request(mappings, "wait_for_callback")
        /\ sync' = SyncContinue([SyncIdle EXCEPT !.txn = issued + 1,
                                                 !.max_retries = max_retries])
    /\ UNCHANGED <<outcome, posted, hook_called>>
    /\ UNCHANGED store_vars

\* asyncio.sleep returns.  The task created at line 104 entered the ready
\* queue before the sleep was started, so it has run by now.
SyncWake ==
    /\ sync.pc = "sleep"
    /\ task[sync.txn] = "settled"
    /\ sync' = SyncContinue(sync)
    /\ UNCHANGED <<transaction_queue, issued, next_ref, mappings_arg,
                   update_http_request, task, outcome, posted, hook_called>>
    /\ UNCHANGED store_vars

(***************************************************************************)
(* The completion hook of a record, invoked with the record once its       *)
(* dispatch has settled.                                                   *)
(***************************************************************************)
InvokeOnComplete(t) ==
    /\ task[t] = "settled"
    /\ transaction_queue[t].callable_on_complete = "wait_for_callback"
    /\ ~hook_called[t]
    /\ hook_called' = [hook_called EXCEPT ![t] = TRUE]
    /\ sync' = [sync EXCEPT !.txn_status = wait_for_callback(@, transaction_queue[t])]
    /\ UNCHANGED <<transaction_queue, issued, next_ref, mappings_arg,
                   update_http_request, task, outcome, posted>>
    /\ UNCHANGED store_vars

(***************************************************************************)
(* The Store: the Redis instance behind queue_redis_async_pool.  Nothing   *)
(* in update.py writes to it; the records mapper_on_update finds there     *)
(* were put there by another writer, possibly with an expiry.              *)
(***************************************************************************)
queue_update_name == "queue_update_name:"

\* f"{_config.queue_update_name}{txn_id}"
Key(txn_id) == <<queue_update_name, txn_id>>

\* The transaction id of the record another writer has stored.
SeedTxn == MaxIssues + 1
CallbackTxnIds == TxnIds \cup {SeedTxn}

RECURSIVE SortedSeq(_)
SortedSeq(S) ==
    IF S = {} THEN <<>>
    ELSE LET m == CHOOSE x \in S : \A y \in S : x <= y
         IN  <<m>> \o SortedSeq(S \ {m})

\* orjson.dumps(txn_status.model_dump()).decode(), line 102: a JSON object
\* whose "refs" member lists the refs one after the other.  The completion
\* hook is no part of the serialized form.
\* (a dump that leaves the reason codes out)
DumpsWithoutReason(rec) ==
    [txn_id |-> rec.txn_id,
     status |-> rec.status,
     refs |-> LET ids == SortedSeq(DOMAIN rec.refs)
              IN  [k \in 1 .. Len(ids) |->
                      [rec.refs[ids[k]] EXCEPT !.status_reason_code = None]],
     callable_on_complete |-> None]

Dumps(rec) ==
    [txn_id |-> rec.txn_id,
     status |-> rec.status,
     refs |-> LET ids == SortedSeq(DOMAIN rec.refs)
              IN  [k \in 1 .. Len(ids) |-> rec.refs[ids[k]]],
     callable_on_complete |-> None]

\* orjson.loads, line 66, and the dict TxnStatus.model_validate builds of it
Loads(v) ==
    [txn_id |-> v.txn_id,
     status |-> v.status,
     refs |-> [r \in {v.refs[k].reference_id : k \in 1 .. Len(v.refs)} |->
                  LET k == CHOOSE j \in 1 .. Len(v.refs) :
                               /\ v.refs[j].reference_id = r
                               /\ \A h \in j + 1 .. Len(v.refs) : v.refs[h].reference_id # r
                  IN  v.refs[k]],
     callable_on_complete |-> v.callable_on_complete]

\* TxnStatus.model_validate accepts the value: status is a RequestStatusEnum.
Validates(v) == v.status \in RequestStatusEnum

\* The values another writer has stored under the key of SeedTxn: a batch
\* whose refs all have one status, with the aggregate of that status or,
\* for a batch still in flight, the null aggregate that line 102 writes
\* when line 68 took no status from the header and line 97 kept it.
SeedRecord(st, aggregate) ==
    [txn_id |-> SeedTxn, status |-> aggregate,
     refs |-> [r \in SeedRefs |-> [status |-> st, reference_id |-> r,
                                   status_reason_code |-> None]],
     callable_on_complete |-> None]

SeedValues ==
    {Dumps(SeedRecord(st, st)) : st \in RequestStatusEnum}
        \cup {Dumps(SeedRecord(st, None)) : st \in {rcvd, pdng}}

\* The records a TxnStatus can be: any aggregate, refs of any status with
\* or without a reason code, with or without the completion hook that
\* update_request_sync hands to update_request.
RefEntries(r) ==
    [status : RequestStatusEnum, reference_id : {r},
     status_reason_code : {"rjct.reference_id.invalid", None}]

HeldRecords ==
    {[txn_id |-> SeedTxn, status |-> st, refs |-> refs, callable_on_complete |-> hook] :
        st \in RequestStatusEnum,
        refs \in {f \in [SeedRefs -> UNION {RefEntries(r) : r \in SeedRefs}] :
                     \A r \in SeedRefs : f[r].reference_id = r},
        hook \in {None, "wait_for_callback"}}

(***************************************************************************)
(* mapper_on_update, update_callback.py lines 42-112.                      *)
(***************************************************************************)
MaxHandlers == 2      \* invocations of mapper_on_update in flight together
MaxItems == 2         \* length of message.update_response
Handlers == 1 .. MaxHandlers

InvalidTxnId == "rjct.transaction.id.invalid"
ReasonCodes == {"rjct.reference_id.invalid"}
HeaderStatuses == RequestStatusEnum \cup {None}
CallbackRefs == SeedRefs \cup {UnknownRef}
CallbackItems ==
    [reference_id : CallbackRefs, status : RequestStatusEnum,
     status_reason_code : ReasonCodes \cup {None}]
ItemLists == SeqsUpTo(CallbackItems, MaxItems)

\* The callbacks: header.status and message.update_response.
Callbacks == [header : HeaderStatuses, items : ItemLists]

\* The callbacks of the runs with more than one handler in flight: no header
\* status and one item, which names a stored ref and reports its end.
RaceCallbacks ==
    [header : {None},
     items : {<<[reference_id |-> r, status |-> st, status_reason_code |-> None]>> :
                  r \in SeedRefs, st \in {succ, rjct}}]

\* The callbacks of the runs next to the issuer: no header status and one
\* item, of a stored or of an unknown reference id, that reports a success
\* or a rejection with its reason code.
OpsCallbacks ==
    [header : {None},
     items : {<<[reference_id |-> r, status |-> succ, status_reason_code |-> None]>> :
                  r \in CallbackRefs}
             \cup {<<[reference_id |-> r, status |-> rjct,
                      status_reason_code |-> "rjct.reference_id.invalid"]>> :
                       r \in CallbackRefs}]

\* lines 71-81 for one item of update_response
ApplyItem(refs, txn) ==
    [refs EXCEPT ![txn.reference_id] =
        [@ EXCEPT !.status = txn.status,
                  !.status_reason_code =
                      IF txn.status_reason_code # None
                      THEN txn.status_reason_code ELSE @]]

\* the loop of lines 70-81; refs[txn.reference_id] raises KeyError when the
\* reference id is no key of refs, and the loop ends there.
\* (a loop that files an item of unknown reference id as a new ref)
RECURSIVE ApplyItemsInserting(_, _)
ApplyItemsInserting(refs, items) ==
    IF items = <<>> THEN [raised |-> FALSE, refs |-> refs]
    ELSE LET r == Head(items).reference_id
             known == IF r \in DOMAIN refs THEN refs
                      ELSE DictSet(refs, r, [status |-> rcvd, reference_id |-> r,
                                             status_reason_code |-> None])
         IN  ApplyItemsInserting(ApplyItem(known, Head(items)), Tail(items))

RECURSIVE ApplyItems(_, _)
ApplyItems(refs, items) ==
    IF items = <<>> THEN [raised |-> FALSE, refs |-> refs]
    ELSE IF Head(items).reference_id \notin DOMAIN refs
         THEN [raised |-> TRUE, refs |-> refs]
         ELSE ApplyItems(ApplyItem(refs, Head(items)), Tail(items))

\* lines 85-91
success_count(refs) == Cardinality({r \in DOMAIN refs : refs[r].status = succ})
pending_count(refs) == Cardinality({r \in DOMAIN refs : refs[r].status \notin {succ, rjct}})

\* lines 83-98: status is what line 68 took from the header
\* (a test at line 83 that lets the placeholder rcvd stand)
ComputeStatusUnsetOnly(status, refs) ==
    IF status = None
    THEN IF success_count(refs) = 0 /\ pending_count(refs) = 0 THEN rjct
         ELSE IF pending_count(refs) = 0 THEN succ
         ELSE status
    ELSE status

\* (a recount whatever the header says)
ComputeStatusAlways(status, refs) ==
    IF success_count(refs) = 0 /\ pending_count(refs) = 0 THEN rjct
    ELSE IF pending_count(refs) = 0 THEN succ
    ELSE status

ComputeStatus(status, refs) ==
    IF status = None \/ status = rcvd
    THEN IF success_count(refs) = 0 /\ pending_count(refs) = 0 THEN rjct
         ELSE IF pending_count(refs) = 0 THEN succ
         ELSE status
    ELSE status

\* lines 65-98 on the value read from the Store
Reconcile(txn_status, header_status, items) ==
    LET merged == ApplyItems(txn_status.refs, items)
    IN  [raised |-> merged.raised,
         txn_status |-> [txn_status EXCEPT
                            !.refs = merged.refs,
                            !.status = ComputeStatus(header_status, merged.refs)]]

NoRecord == [txn_id |-> None]
HandlerIdle ==
    [pc |-> "idle", txn_id |-> EmptyStr, header |-> None, items |-> <<>>,
     raw |-> NoRecord, txn_status |-> NoRecord,
     ack_status |-> None, error |-> None, fault |-> None, connection |-> FALSE]

\* queue.exists, line 51 (and an answer that is always yes)
KeyExistsAlways(st, k) == TRUE

KeyExists(st, k) == k \in DOMAIN st

\* lines 48-51: the request arrives, the connection is taken from the pool
\* and the handler awaits queue.exists.
CbStart(i) ==
    /\ rc[i].pc = "idle"
    /\ \A j \in Handlers : j < i => rc[j].pc # "idle"
    /\ \E txn_id \in CallbackTxnIds :
           rc' = [rc EXCEPT ![i] = [HandlerIdle EXCEPT
                     !.pc = "exists", !.txn_id = txn_id, !.connection = TRUE]]
    /\ UNCHANGED <<store, expiring>>
    /\ UNCHANGED issuer_vars

\* queue.exists answers.  Lines 51-63: the Nack on an absent key, or on to
\* the await of queue.get.
CbExists(i) ==
    /\ rc[i].pc = "exists"
    /\ IF KeyExists(store, Key(rc[i].txn_id))
       THEN rc' = [rc EXCEPT ![i].pc = "get"]
       ELSE rc' = [rc EXCEPT ![i].pc = "done", ![i].ack_status = NACK,
                             ![i].error = InvalidTxnId]
    /\ UNCHANGED <<store, expiring>>
    /\ UNCHANGED issuer_vars

\* queue.get answers.  Lines 65-100 up to the await of queue.set: the value
\* is parsed and validated, the callback is merged into it.  The header
\* status and the items of the request are first read at lines 68 and 70,
\* and this is where the model draws them, from the set cbs.
CbGet(i, cbs) ==
    /\ rc[i].pc = "get"
    /\ LET k == Key(rc[i].txn_id)
       IN  IF k \notin DOMAIN store
           THEN rc' = [rc EXCEPT ![i].pc = "raised", ![i].fault = "JSONDecodeError"]
           ELSE IF ~Validates(store[k])
           THEN rc' = [rc EXCEPT ![i].pc = "raised", ![i].fault = "ValidationError",
                                 ![i].raw = store[k]]
           ELSE \E cb \in cbs :
                LET res == Reconcile(Loads(store[k]), cb.header, cb.items)
                    read == [rc[i] EXCEPT !.raw = store[k], !.header = cb.header,
                                          !.items = cb.items,
                                          !.txn_status = res.txn_status]
                IN  IF res.raised
                    THEN rc' = [rc EXCEPT ![i] = [read EXCEPT !.pc = "raised",
                                                              !.fault = "KeyError"]]
                    ELSE rc' = [rc EXCEPT ![i] = [read EXCEPT !.pc = "set"]]
    /\ UNCHANGED <<store, expiring>>
    /\ UNCHANGED issuer_vars

\* queue.set answers, lines 100-104 up to the await of queue.aclose.  SET
\* without KEEPTTL leaves the key without expiry.
CbSet(i) ==
    /\ rc[i].pc = "set"
    /\ store' = DictSet(store, Key(rc[i].txn_id), Dumps(rc[i].txn_status))
    /\ expiring' = expiring \ {Key(rc[i].txn_id)}
    /\ rc' = [rc EXCEPT ![i].pc = "close"]
    /\ UNCHANGED issuer_vars

\* queue.aclose answers, lines 104-112: the Ack.
CbClose(i) ==
    /\ rc[i].pc = "close"
    /\ rc' = [rc EXCEPT ![i].pc = "done", ![i].ack_status = ACK,
                        ![i].connection = FALSE]
    /\ UNCHANGED <<store, expiring>>
    /\ UNCHANGED issuer_vars

\* lines 65-67 alone: the value under the key is read and made a TxnStatus.
ReadBack(i) ==
    /\ rc[i].pc = "get"
    /\ Key(rc[i].txn_id) \in DOMAIN store
    /\ Validates(store[Key(rc[i].txn_id)])
    /\ rc' = [rc EXCEPT ![i].pc = "read",
                        ![i].raw = store[Key(rc[i].txn_id)],
                        ![i].txn_status = Loads(store[Key(rc[i].txn_id)])]
    /\ UNCHANGED <<store, expiring>>
    /\ UNCHANGED issuer_vars

\* lines 48-51 once more: the sender delivers again the callback that
\* invocation j has acknowledged, and invocation i awaits queue.exists.
CbRedeliver(i, j) ==
    /\ rc[i].pc = "idle"
    /\ rc[j].pc = "done"
    /\ rc[j].ack_status = ACK
    /\ rc' = [rc EXCEPT ![i] = [HandlerIdle EXCEPT
              !.pc = "exists", !.txn_id = rc[j].txn_id, !.connection = TRUE]]
    /\ UNCHANGED <<store, expiring>>
    /\ UNCHANGED issuer_vars

\* lines 65-100 of the redelivery: the header and the items are those of
\* invocation j.
CbGetAgain(i, j) ==
    CbGet(i, {[header |-> rc[j].header, items |-> rc[j].items]})

\* The Store drops a key whose expiry has passed.
Expire(k) ==
    /\ k \in expiring
    /\ store' = [x \in DOMAIN store \ {k} |-> store[x]]
    /\ expiring' = expiring \ {k}
    /\ UNCHANGED rc
    /\ UNCHANGED issuer_vars

InitIssuer ==
    /\ transaction_queue = <<>>
    /\ issued = 0
    /\ next_ref = FirstIssuedRef
    /\ mappings_arg = <<>>
    /\ update_http_request = <<>>
    /\ task = [t \in TxnIds |-> "none"]
    /\ outcome = [t \in TxnIds |-> None]
    /\ posted = {}
    /\ hook_called = [t \in TxnIds |-> FALSE]
    /\ sync = SyncIdle

InitStore ==
    /\ \E v \in SeedValues : store = [k \in {Key(SeedTxn)} |-> v]
    /\ expiring \in SUBSET {Key(SeedTxn)}
    /\ rc = [i \in Handlers |-> HandlerIdle]

Init == InitIssuer /\ InitStore

\* A Store without keys and no callback under way.
InitQuiet ==
    /\ InitIssuer
    /\ store = <<>>
    /\ expiring = {}
    /\ rc = [i \in Handlers |-> HandlerIdle]

\* An empty Store and a record of any shape about to be written by the
\* first invocation (the await of queue.set, line 100).
InitRoundTrip ==
    /\ InitIssuer
    /\ store = <<>>
    /\ expiring = {}
    /\ \E rec \in HeldRecords :
           rc = [i \in Handlers |->
                    IF i = 1
                    THEN [HandlerIdle EXCEPT !.pc = "set", !.txn_id = SeedTxn,
                                             !.txn_status = rec, !.connection = TRUE]
                    ELSE HandlerIdle]

\* The Store holds one dispatched batch, with or without expiry; nothing
\* is issued yet and no callback is under way.
InitOps ==
    /\ InitIssuer
    /\ store = [k \in {Key(SeedTxn)} |-> Dumps(SeedRecord(pdng, pdng))]
    /\ expiring \in SUBSET {Key(SeedTxn)}
    /\ rc = [i \in Handlers |-> HandlerIdle]

NextIssuer ==
    \/ Issue
    \/ SyncCall
    \/ \E t \in TxnIds : start_update_process(t)
    \/ \E t \in TxnIds : InvokeOnComplete(t)
    \/ SyncWake

\* One invocation of mapper_on_update, callbacks of every shape.
NextCallback ==
    \/ CbStart(1)
    \/ CbExists(1)
    \/ CbGet(1, Callbacks)
    \/ CbSet(1)
    \/ CbClose(1)
    \/ \E k \in DOMAIN store : Expire(k)

\* The invocations of mapper_on_update in flight together.
NextRace ==
    \/ \E i \in Handlers : CbStart(i)
    \/ \E i \in Handlers : CbExists(i)
    \/ \E i \in Handlers : CbGet(i, RaceCallbacks)
    \/ \E i \in Handlers : CbSet(i)
    \/ \E i \in Handlers : CbClose(i)
    \/ \E k \in DOMAIN store : Expire(k)

\* The issuer and one invocation of mapper_on_update.
Next ==
    \/ Issue
    \/ SyncCall
    \/ \E t \in TxnIds : start_update_process(t)
    \/ \E t \in TxnIds : InvokeOnComplete(t)
    \/ SyncWake
    \/ CbStart(1)
    \/ CbExists(1)
    \/ CbGet(1, RaceCallbacks)
    \/ CbSet(1)
    \/ CbClose(1)
    \/ \E k \in DOMAIN store : Expire(k)

\* The write of one invocation and the read of the next.
NextRoundTrip ==
    \/ CbSet(1)
    \/ CbClose(1)
    \/ CbStart(2)
    \/ CbExists(2)
    \/ ReadBack(2)

\* Issue, dispatch and one invocation of mapper_on_update.
NextOps ==
    \/ Issue
    \/ \E t \in TxnIds : start_update_process(t)
    \/ CbStart(1)
    \/ CbExists(1)
    \/ CbGet(1, OpsCallbacks)
    \/ CbSet(1)
    \/ CbClose(1)
    \/ \E k \in DOMAIN store : Expire(k)

\* One invocation of mapper_on_update and the redelivery of its callback.
NextRedeliver ==
    \/ CbStart(1)
    \/ CbExists(1)
    \/ CbGet(1, Callbacks)
    \/ CbSet(1)
    \/ CbClose(1)
    \/ CbRedeliver(2, 1)
    \/ CbExists(2)
    \/ CbGetAgain(2, 1)
    \/ CbSet(2)
    \/ CbClose(2)
    \/ \E k \in DOMAIN store : Expire(k)

Spec == Init /\ [][Next]_vars

SpecIssuer == InitQuiet /\ [][NextIssuer]_vars

SpecCallback == Init /\ [][NextCallback]_vars

SpecRace == Init /\ [][NextRace]_vars

SpecRoundTrip == InitRoundTrip /\ [][NextRoundTrip]_vars

SpecOps == InitOps /\ [][NextOps]_vars

SpecRedeliver == Init /\ [][NextRedeliver]_vars

(***************************************************************************)
(* The claims.                                                             *)
(***************************************************************************)

\* C1: a callback whose transaction id has no key in the Store is answered
\* in the step of the existence check with a Nack that carries
\* rjct.transaction.id.invalid, and that step leaves the Store as it was.
C1_UnknownTxnNack ==
    [][\A i \in Handlers :
          (rc[i].pc = "exists" /\ rc'[i] # rc[i]
              /\ Key(rc[i].txn_id) \notin DOMAIN store)
          => /\ rc'[i].pc = "done"
             /\ rc'[i].ack_status = NACK
             /\ rc'[i].error = "rjct.transaction.id.invalid"
             /\ rc'[i].fault = None
             /\ store' = store
             /\ expiring' = expiring]_vars

\* A Nack was given for an id that was never stored, the stored record is
\* still there.
C1_Witness ==
    /\ rc[1].pc = "done"
    /\ rc[1].ack_status = NACK
    /\ rc[1].txn_id \in TxnIds
    /\ Key(SeedTxn) \in DOMAIN store

\* C2: with the header status unset, the aggregate that reconcile persists
\* is rejected when S = 0 and P = 0, succeeded when P = 0 and S > 0, and the
\* aggregate the record had before when P > 0 (S, P counted on the refs
\* after the per-item updates).
C2_AggregationLaw ==
    \A i \in Handlers :
        (rc[i].pc = "close" /\ rc[i].header = None) =>
            LET after == Loads(store[Key(rc[i].txn_id)])
                S == Cardinality({r \in DOMAIN after.refs : after.refs[r].status = succ})
                P == Cardinality({r \in DOMAIN after.refs :
                                     after.refs[r].status \notin {succ, rjct}})
            IN  after.status = IF S = 0 /\ P = 0 THEN rjct
                               ELSE IF P = 0 THEN succ
                               ELSE rc[i].raw.status

\* C3: once the dispatch of a transaction has settled, every ref is pending
\* if the service answered ACK and rejected on every other outcome; before
\* that every ref is still received.  No mixture exists.
C3_UniformDispatch ==
    \A t \in DOMAIN transaction_queue :
        LET refs == transaction_queue[t].refs
        IN  /\ task[t] = "scheduled" => \A r \in DOMAIN refs : refs[r].status = rcvd
            /\ (task[t] = "settled" /\ outcome[t] = "ack")
                   => \A r \in DOMAIN refs : refs[r].status = pdng
            /\ (task[t] = "settled" /\ outcome[t] \in {"nack", "timeout", "non2xx", "raise"})
                   => \A r \in DOMAIN refs : refs[r].status = rjct

\* A batch of two whose dispatch met a negative acknowledgment.
C3_Witness ==
    \E t \in DOMAIN transaction_queue :
        /\ task[t] = "settled"
        /\ outcome[t] = "nack"
        /\ Cardinality(DOMAIN transaction_queue[t].refs) >= 2

\* C4: the record update_request returns for N mappings has the aggregate
\* received and N refs, each received and filed under its own reference id,
\* and the payload carries these N reference ids, no id twice, with
\* total_count = N.
C4_IssueShape ==
    \A t \in DOMAIN transaction_queue :
        LET rec == transaction_queue[t]
            N == Len(mappings_arg[t])
            req == update_http_request[t]
        IN  /\ Cardinality(DOMAIN rec.refs) = N
            /\ \A r \in DOMAIN rec.refs : rec.refs[r].reference_id = r
            /\ task[t] = "scheduled" =>
                   /\ rec.status = rcvd
                   /\ \A r \in DOMAIN rec.refs : rec.refs[r].status = rcvd
            /\ req.transaction_id = rec.txn_id
            /\ req.total_count = N
            /\ Len(req.update_request) = N
            /\ {req.update_request[k].reference_id : k \in 1 .. N} = DOMAIN rec.refs
            /\ \A j, k \in 1 .. N :
                   j # k => req.update_request[j].reference_id
                                # req.update_request[k].reference_id
            /\ \A k \in 1 .. N : req.update_request[k].id = mappings_arg[t][k].id

\* A record just returned for two mappings with the same id.
C4_Witness ==
    \E t \in DOMAIN transaction_queue :
        /\ task[t] = "scheduled"
        /\ Len(mappings_arg[t]) = 2
        /\ mappings_arg[t][1].id = mappings_arg[t][2].id

\* The refs with every item of a known reference id applied and the others
\* passed over.
RECURSIVE ApplyKnown(_, _)
ApplyKnown(refs, items) ==
    IF items = <<>> THEN refs
    ELSE IF Head(items).reference_id \in DOMAIN refs
         THEN ApplyKnown(ApplyItem(refs, Head(items)), Tail(items))
         ELSE ApplyKnown(refs, Tail(items))

HasUnknownItem(i) ==
    \E k \in 1 .. Len(rc[i].items) :
        rc[i].items[k].reference_id \notin DOMAIN Loads(rc[i].raw).refs

\* C5: a callback on a known transaction with items of unknown reference
\* ids has those items passed over, the others applied, the record
\* persisted and an Ack returned.
C5_UnknownRefsIgnored ==
    \A i \in Handlers :
        (rc[i].fault # "ValidationError" /\ rc[i].raw # NoRecord /\ HasUnknownItem(i)) =>
            /\ rc[i].pc \in {"set", "close", "done"}
            /\ rc[i].txn_status.refs = ApplyKnown(Loads(rc[i].raw).refs, rc[i].items)
            /\ rc[i].pc = "done" => rc[i].ack_status = ACK

\* C6: when two reconcile runs that name different refs of one transaction
\* have both completed, the record in the Store has the statuses of both.
C6_NoLostUpdate ==
    \A i, j \in Handlers :
        (/\ i # j
         /\ rc[i].pc = "done" /\ rc[i].ack_status = ACK
         /\ rc[j].pc = "done" /\ rc[j].ack_status = ACK
         /\ rc[i].txn_id = rc[j].txn_id
         /\ {rc[i].items[k].reference_id : k \in 1 .. Len(rc[i].items)}
                \cap {rc[j].items[k].reference_id : k \in 1 .. Len(rc[j].items)} = {})
        => LET now == Loads(store[Key(rc[i].txn_id)])
           IN  \A h \in {i, j} : \A k \in 1 .. Len(rc[h].items) :
                   now.refs[rc[h].items[k].reference_id].status = rc[h].items[k].status

\* C7: the transaction of every payload that went out is in the Store, and
\* a callback whose existence check comes after the payload went out is not
\* answered with the unknown-transaction Nack.
C7_PersistedBeforeDispatch ==
    [][/\ \A req \in posted' : Key(req.transaction_id) \in DOMAIN store'
       /\ \A i \in Handlers :
              (/\ rc[i].pc = "exists" /\ rc'[i] # rc[i]
               /\ \E req \in posted : req.transaction_id = rc[i].txn_id)
              => rc'[i].ack_status # NACK]_vars

\* C8: after the dispatch of a transaction has settled, and with no callback
\* for it, the Store holds the record with the bulk flip, equal to the
\* record in memory.
C8_FlipPersisted ==
    \A t \in DOMAIN transaction_queue :
        (task[t] = "settled" /\ \A i \in Handlers : rc[i].txn_id # t) =>
            /\ Key(t) \in DOMAIN store
            /\ Loads(store[Key(t)]).refs = transaction_queue[t].refs
            /\ Loads(store[Key(t)]).status = transaction_queue[t].status

\* C9: when the hook has run before the polls are used up, so that
\* update_request_sync ends without the retry error, the caller-visible
\* record has the transaction id, the status and the refs of the issued
\* record, and it is what update_request_sync returns.
C9_SyncReturnsRecord ==
    sync.pc = "returned" =>
        /\ hook_called[sync.txn]
        /\ sync.result = "txn_status"
        /\ sync.txn_status.txn_id = sync.txn
        /\ sync.txn_status.status = transaction_queue[sync.txn].status
        /\ DOMAIN sync.txn_status.refs = DOMAIN transaction_queue[sync.txn].refs

\* C10: update_request_sync sleeps at most max_retries times, and the step
\* that ends it ends it in G2P-MAP-103 exactly when txn_id is still empty,
\* all sleeps slept; the status of the transaction has no part in it.
C10_BoundedPolling ==
    [][/\ sync'.retry_count <= sync'.max_retries
       /\ sync'.pc = "sleep" => sync'.retry_count >= 1
       /\ (sync.pc = "sleep" /\ sync'.pc = "sleep")
              => sync'.retry_count \in {sync.retry_count, sync.retry_count + 1}
       /\ (sync.pc \in {"idle", "sleep"} /\ sync'.pc \in {"raised", "returned"})
              => /\ sync'.pc = "raised" <=> sync'.txn_status.txn_id = EmptyStr
                 /\ sync'.pc = "raised" =>
                        /\ sync'.error = "G2P-MAP-103"
                        /\ sync'.retry_count = sync'.max_retries
                 /\ sync'.pc = "returned" => sync'.error = None
       /\ sync.pc \in {"raised", "returned"} => sync'.pc = sync.pc]_vars

\* All the sleeps were slept, the dispatch has settled with a positive
\* acknowledgment, and the call still ended in G2P-MAP-103.
C10_Witness ==
    /\ sync.pc = "raised"
    /\ sync.max_retries >= 2
    /\ task[sync.txn] = "settled"
    /\ transaction_queue[sync.txn].status = pdng

\* The record in the Store after the write of handler i.
Persisted(i) == Loads(store[Key(rc[i].txn_id)])

\* Handler i has written and no one else has since.
HasWritten(i) ==
    /\ rc[i].pc = "close" \/ (rc[i].pc = "done" /\ rc[i].ack_status = ACK)
    /\ Key(rc[i].txn_id) \in DOMAIN store

AllTerminal(refs) == \A r \in DOMAIN refs : refs[r].status \in {succ, rjct}

Derived(refs) == IF \E r \in DOMAIN refs : refs[r].status = succ THEN succ ELSE rjct

\* C11 as stated: after a reconcile has completed, a stored record whose
\* refs are all succeeded or rejected has the aggregate derived from them,
\* whatever status the header of the callback carried.
C11_DerivedAnyHeader ==
    \A i \in Handlers :
        (HasWritten(i) /\ AllTerminal(Persisted(i).refs))
            => Persisted(i).status = Derived(Persisted(i).refs)

\* C11 as amended: the same for the callbacks whose header carries no status
\* or the placeholder received.
C11_DerivedWhenRecomputed ==
    \A i \in Handlers :
        (HasWritten(i) /\ rc[i].header \in {None, rcvd}
             /\ AllTerminal(Persisted(i).refs))
            => Persisted(i).status = Derived(Persisted(i).refs)

\* A callback with the placeholder header has ended a batch with one ref
\* succeeded and one rejected.
C11_Witness ==
    /\ HasWritten(1)
    /\ rc[1].header = rcvd
    /\ Persisted(1).status = succ
    /\ \E r \in DOMAIN Persisted(1).refs : Persisted(1).refs[r].status = rjct
    /\ \E r \in DOMAIN Persisted(1).refs : Persisted(1).refs[r].status = succ

\* C16: when the header supplies pending, succeeded or rejected, the
\* aggregate that reconcile persists is the header's, whatever the refs are;
\* the recount decides only under no header status or received, and there
\* only when no ref is left in flight.
C16_HeaderStatusWins ==
    \A i \in Handlers :
        HasWritten(i) =>
            /\ rc[i].header \in {pdng, succ, rjct}
                   => Persisted(i).status = rc[i].header
            /\ (rc[i].header \in {None, rcvd} /\ ~AllTerminal(Persisted(i).refs))
                   => Persisted(i).status = rc[i].header

\* The header said pending over a batch whose refs have all succeeded.
C16_Witness ==
    /\ HasWritten(1)
    /\ rc[1].header = pdng
    /\ Persisted(1).status = pdng
    /\ \A r \in DOMAIN Persisted(1).refs : Persisted(1).refs[r].status = succ

\* Handler i has left mapper_on_update, by a return or by an exception.
HasLeft(i) == rc[i].pc \in {"done", "raised"}

\* C13: a reconcile run that has left the operation holds no Store
\* connection, whatever the way out: Ack, Nack for an unknown transaction,
\* or fault.
C13_ConnectionReleased ==
    \A i \in Handlers : HasLeft(i) => ~rc[i].connection

\* C14: reconcile does not raise: neither on an item of unknown reference
\* id nor when the key expires between the existence check and the read.
C14_NeverRaises ==
    \A i \in Handlers : rc[i].fault \notin {"KeyError", "JSONDecodeError"}

\* The positions in items of the items that name ref r, and the last of a
\* set of positions.
ItemsNaming(items, r) == {k \in 1 .. Len(items) : items[k].reference_id = r}

Last(ks) == CHOOSE k \in ks : \A j \in ks : j <= k

\* C17: for every callback on a known transaction, a ref that items name
\* has the status of the (last) item that names it and the reason code of
\* the (last) such item that supplies one, else the code it had; a ref no
\* item names is as it was, and so is the transaction id.
C17_MergeAndFrame ==
    \A i \in Handlers :
        (rc[i].raw # NoRecord /\ rc[i].fault # "ValidationError") =>
            LET before == Loads(rc[i].raw)
                after == rc[i].txn_status
                items == rc[i].items
            IN  /\ after.txn_id = before.txn_id
                /\ \A r \in DOMAIN before.refs :
                       LET ks == ItemsNaming(items, r)
                           coded == {k \in ks : items[k].status_reason_code # None}
                       IN  IF ks = {} THEN after.refs[r] = before.refs[r]
                           ELSE /\ after.refs[r].status = items[Last(ks)].status
                                /\ after.refs[r].status_reason_code =
                                       IF coded = {}
                                       THEN before.refs[r].status_reason_code
                                       ELSE items[Last(coded)].status_reason_code

\* C18: a callback on a transaction id whose record the handler has read
\* ends with the Ack, after the one write of the merged record to the key
\* of that transaction id.
C18_OneWriteThenAck ==
    \A i \in Handlers :
        (HasLeft(i) /\ rc[i].raw # NoRecord /\ rc[i].fault # "ValidationError") =>
            /\ rc[i].ack_status = ACK
            /\ Key(rc[i].txn_id) \in DOMAIN store
            /\ store[Key(rc[i].txn_id)] = Dumps(rc[i].txn_status)

C12_RefKeysFixed ==
    /\ \A t \in DOMAIN transaction_queue :
           DOMAIN transaction_queue[t].refs
               = {update_http_request[t].update_request[k].reference_id :
                      k \in 1 .. Len(update_http_request[t].update_request)}
    /\ \A k \in DOMAIN store : DOMAIN Loads(store[k]).refs = SeedRefs
    /\ \A i \in Handlers :
           rc[i].txn_status # NoRecord => DOMAIN rc[i].txn_status.refs = SeedRefs

\* A run has met an item of unknown reference id while the record is in
\* the Store and a dispatched record is in memory.
C12_Witness ==
    /\ rc[1].fault = "KeyError"
    /\ Key(rc[1].txn_id) \in DOMAIN store
    /\ \E t \in DOMAIN transaction_queue :
           task[t] = "settled" /\ Cardinality(DOMAIN transaction_queue[t].refs) = MaxMappings

\* The refs of rec all have one of the statuses a bulk flip or the
\* creation gives.
BulkUniform(rec) ==
    \E st \in {rcvd, pdng, rjct} : \A r \in DOMAIN rec.refs : rec.refs[r].status = st

\* C20: no step of a reconcile run changes the in-memory transaction map; a
\* record in it changes only in the step in which its dispatch settles, and
\* its refs are at all times all received, all pending or all rejected.
C20_HandleOnlyBulkFlipped ==
    [][/\ rc' # rc => transaction_queue' = transaction_queue
       /\ \A t \in DOMAIN transaction_queue :
              /\ t \in DOMAIN transaction_queue'
              /\ transaction_queue'[t] # transaction_queue[t]
                     => task[t] = "scheduled" /\ task'[t] = "settled"
       /\ \A t \in DOMAIN transaction_queue' : BulkUniform(transaction_queue'[t])]_vars

\* A callback for the transaction id of a dispatched record has been
\* answered while the refs of the record are all pending.
C20_Witness ==
    /\ rc[1].pc = "done"
    /\ rc[1].txn_id \in DOMAIN transaction_queue
    /\ task[rc[1].txn_id] = "settled"
    /\ transaction_queue[rc[1].txn_id].refs # <<>>
    /\ \A r \in DOMAIN transaction_queue[rc[1].txn_id].refs :
           transaction_queue[rc[1].txn_id].refs[r].status = pdng

\* C19: a callback with known reference ids that has been acknowledged and
\* is delivered again, with no other writer in between, is acknowledged
\* again and leaves in the Store what its first application left there.
C19_RedeliveryIdempotent ==
    (/\ rc[1].pc = "done" /\ rc[1].ack_status = ACK
     /\ HasLeft(2) /\ rc[2].txn_id = rc[1].txn_id)
    => /\ rc[2].ack_status = ACK
       /\ Key(rc[1].txn_id) \in DOMAIN store
       /\ store[Key(rc[1].txn_id)] = Dumps(rc[1].txn_status)

=============================================================================
